---- MODULE Spec2Model ----
(***************************************************************************)
(* Model of the inform packet decoder (packet.go):                         *)
(*   ReadPacket  - header read, field parsing, payload framing             *)
(*   Packet.Data - decrypt / legacy-compressed / snappy pipeline           *)
(*   pkcs7unpad  - PKCS7 padding removal                                   *)
(* Bytes are integers 0..255, byte slices are sequences.                   *)
(***************************************************************************)
EXTENDS Integers, Sequences, FiniteSets, TLC

VARIABLES
    frames,   \* the frames the input stream was built from
    stream,   \* the bytes behind the io.Reader
    pos,      \* number of bytes the reader has handed out so far
    calls,    \* one record per finished ReadPacket call, in call order
    dpkt,     \* the Packet Data is called on
    dkey,     \* the key passed to Data
    dres,     \* outcome of the Data call
    dpc,      \* "idle" | "ready" | "done"
    ubuf,     \* the buffer given to pkcs7unpad
    uorig,    \* the plaintext ubuf was padded from (when upc went through "padded")
    ures,     \* outcome of pkcs7unpad
    upc       \* "idle" | "input" | "padded" | "done"

vars == <<frames, stream, pos, calls, dpkt, dkey, dres, dpc, ubuf, uorig, ures, upc>>

readVars == <<frames, stream, pos, calls>>
dataVars == <<dpkt, dkey, dres, dpc>>
padVars  == <<ubuf, uorig, ures, upc>>

----------------------------------------------------------------------------
(* Bounds of the model *)

MaxPayload == 2     \* longest payload of a frame
MaxPackets == 2     \* frames in a stream, and ReadPacket calls on one reader
MaxReads   == 2     \* reads of one call whose behaviour is chosen freely
MaxBufLen  == 3     \* longest buffer handed to pkcs7unpad directly

----------------------------------------------------------------------------
(* Generic helpers *)

Min(a, b) == IF a < b THEN a ELSE b

Take(s, n) == SubSeq(s, 1, Min(n, Len(s)))

Zeros(n) == [i \in 1..n |-> 0]

RECURSIVE Uint(_)
\* binary.BigEndian.Uint16 / Uint32: most significant byte first
Uint(b) == IF Len(b) = 0 THEN 0
           ELSE Uint(SubSeq(b, 1, Len(b) - 1)) * 256 + b[Len(b)]

RECURSIVE PutUint(_, _)
\* the big-endian encoding of v on w bytes (used to build input headers)
PutUint(v, w) == IF w = 0 THEN <<>>
                 ELSE Append(PutUint(v \div 256, w - 1), v % 256)

----------------------------------------------------------------------------
(* Header layout *)

fields == <<
    [name |-> "Magic",          length |-> 4],
    [name |-> "PacketVersion",  length |-> 4],
    [name |-> "MAC",            length |-> 6],
    [name |-> "Flags",          length |-> 2],
    [name |-> "IV",             length |-> 16],
    [name |-> "PayloadVersion", length |-> 4],
    [name |-> "PayloadLength",  length |-> 4] >>

hlen == 4 + 4 + 6 + 2 + 16 + 4 + 4

UBNT == <<85, 66, 78, 84>>

Encrypted        == 1
Compressed       == 2
SnappyCompressed == 4

\* mutant: the flags are compared with the bit instead of masked by it
HasFlag_equal(f, bit) == f = bit

\* p.Flags&bit != 0
HasFlag(f, bit) == (f \div bit) % 2 = 1

----------------------------------------------------------------------------
(* Errors *)

NoErr == [kind |-> "nil", msg |-> ""]

errInvalidMagic == [kind |-> "InvalidMagic", msg |-> "invalid magic"]

errIncompletePacket(msg) == [kind |-> "IncompletePacket", msg |-> msg]

\* an error of the reader handed back unchanged
ioErr(e) == [kind |-> "io", msg |-> e]

----------------------------------------------------------------------------
(* The io.Reader.  Each Read is answered according to a behaviour:         *)
(*   "full"  as many bytes as requested, or all that remain                *)
(*   "short" a single byte, although more are requested and available      *)
(*   "eof"   like "full", and io.EOF together with the last bytes          *)
(*   "fail"  no bytes and an error other than io.EOF                       *)
(* A script lists the behaviours of the first reads of a call; reads       *)
(* beyond the script are "full".                                           *)

Behaviours == {"full", "short", "eof", "fail"}

Beh(script, k) == IF k <= Len(script) THEN script[k] ELSE "full"

Read(s, p, beh, req) ==
    LET rem   == Len(s) - p
        avail == Min(req, rem)
    IN  IF beh = "fail" THEN [n |-> 0, err |-> "closed"]
        ELSE IF rem = 0 THEN [n |-> 0, err |-> "EOF"]
        ELSE IF beh = "short" THEN [n |-> 1, err |-> "nil"]
        ELSE IF beh = "eof" /\ avail = rem THEN [n |-> avail, err |-> "EOF"]
        ELSE [n |-> avail, err |-> "nil"]

RECURSIVE ReadAtLeast(_, _, _, _, _, _)
\* io.ReadAtLeast: the loop of io.ReadFull, n bytes of min collected so far,
\* the next read is the k-th of the call
ReadAtLeast(s, p, script, k, n, min) ==
    IF n >= min THEN [n |-> n, err |-> "nil"]
    ELSE LET r  == Read(s, p + n, Beh(script, k), min - n)
             n2 == n + r.n
         IN  IF r.err = "nil" THEN ReadAtLeast(s, p, script, k + 1, n2, min)
             ELSE IF n2 >= min THEN [n |-> n2, err |-> "nil"]
             ELSE IF n2 > 0 /\ r.err = "EOF" THEN [n |-> n2, err |-> "unexpected EOF"]
             ELSE [n |-> n2, err |-> r.err]

\* io.ReadFull(r, buf) with len(buf) = min; the header read was read 1
ReadFull(s, p, script, min) == ReadAtLeast(s, p, script, 2, 0, min)

----------------------------------------------------------------------------
(* ReadPacket *)

EmptyPacket == [PacketVersion |-> 0, PayloadVersion |-> 0, MAC |-> <<>>,
                Flags |-> 0, IV |-> <<>>, Payload |-> <<>>]

\* mutant: the two version fields are stored in each other's place
update_swapped(p, name, data) ==
    CASE name = "PacketVersion"  -> [p EXCEPT !.PayloadVersion = Uint(data)]
      [] name = "MAC"            -> [p EXCEPT !.MAC = data]
      [] name = "Flags"          -> [p EXCEPT !.Flags = Uint(data)]
      [] name = "IV"             -> [p EXCEPT !.IV = data]
      [] name = "PayloadVersion" -> [p EXCEPT !.PacketVersion = Uint(data)]
      [] OTHER                   -> p

update(p, name, data) ==
    CASE name = "PacketVersion"  -> [p EXCEPT !.PacketVersion = Uint(data)]
      [] name = "MAC"            -> [p EXCEPT !.MAC = data]
      [] name = "Flags"          -> [p EXCEPT !.Flags = Uint(data)]
      [] name = "IV"             -> [p EXCEPT !.IV = data]
      [] name = "PayloadVersion" -> [p EXCEPT !.PayloadVersion = Uint(data)]
      [] OTHER                   -> p

\* mutant: only the first byte of the magic is compared
MagicOK_firstByte(curr) == curr[1] = UBNT[1]

MagicOK(curr) == curr = UBNT

RECURSIVE ParseFields(_, _, _, _)
\* the loop over fields: field i of head at offset off
ParseFields(head, i, off, pkt) ==
    IF i > Len(fields) THEN [err |-> NoErr, pkt |-> pkt]
    ELSE LET f    == fields[i]
             curr == SubSeq(head, off + 1, off + f.length)
         IN  IF f.name = "Magic" /\ ~MagicOK(curr)
             THEN [err |-> errInvalidMagic, pkt |-> pkt]
             ELSE LET p1 == IF f.name = "PayloadLength"
                            THEN [pkt EXCEPT !.Payload = Zeros(Uint(curr))]
                            ELSE update(pkt, f.name, curr)
                  IN  ParseFields(head, i + 1, off + f.length, p1)

HeaderComplete(n) == n = hlen

\* mutant: a declared length of zero is let through
NoPayload_never(pkt) == FALSE

NoPayload(pkt) == Len(pkt.Payload) = 0

\* the result of ReadPacket on reader (s, p) answering by script:
\* pkt is <<>> for nil or <<packet>>, end is the reader's position afterwards
ReadPacket(s, p, script) ==
    LET r    == Read(s, p, Beh(script, 1), hlen)
        head == SubSeq(s, p + 1, p + r.n) \o Zeros(hlen - r.n)
        p1   == p + r.n
    IN  IF r.err # "nil" THEN [pkt |-> <<>>, err |-> ioErr(r.err), end |-> p1]
        ELSE IF ~HeaderComplete(r.n)
        THEN [pkt |-> <<>>, err |-> errIncompletePacket("header too short"), end |-> p1]
        ELSE LET h == ParseFields(head, 1, 0, EmptyPacket)
             IN  IF h.err # NoErr THEN [pkt |-> <<>>, err |-> h.err, end |-> p1]
                 ELSE IF NoPayload(h.pkt)
                 THEN [pkt |-> <<>>,
                       err |-> errIncompletePacket("header does not define payload length"),
                       end |-> p1]
                 ELSE LET L  == Len(h.pkt.Payload)
                          rf == ReadFull(s, p1, script, L)
                      IN  IF rf.err # "nil"
                          THEN [pkt |-> <<>>, err |-> errIncompletePacket(rf.err),
                                end |-> p1 + rf.n]
                          ELSE [pkt |-> <<[h.pkt EXCEPT !.Payload =
                                             SubSeq(s, p1 + 1, p1 + rf.n)]>>,
                                err |-> NoErr, end |-> p1 + rf.n]

----------------------------------------------------------------------------
(* Input streams *)

BadMagic == <<85, 66, 78, 88>>

\* frame i of a stream: its version, flags, MAC, IV and payload bytes carry i
FrameOf(i, magic, declared, plen) ==
    [magic |-> magic, ver |-> 255 + i, flags |-> i - 1,
     mac |-> [j \in 1..6 |-> 16 * i + j], iv |-> [j \in 1..16 |-> 32 * i + j],
     pver |-> i, declared |-> declared,
     payload |-> [j \in 1..plen |-> 64 * i + j]]

Header(fr) ==
    fr.magic \o PutUint(fr.ver, 4) \o fr.mac \o PutUint(fr.flags, 2) \o fr.iv
        \o PutUint(fr.pver, 4) \o PutUint(fr.declared, 4)

RECURSIVE Concat(_)
Concat(frs) == IF Len(frs) = 0 THEN <<>>
               ELSE Header(frs[1]) \o frs[1].payload \o Concat(Tail(frs))

\* what may be wrong with a frame
Defects == {"magic", "zero", "over", "under", "bare"}

\* frame i of a stream whose payload lengths start from base; kind is "ok"
\* or the defect of the frame: a wrong magic, a declared length of zero, one
\* more or one less than the payload bytes that follow, no payload at all
FrameIn(i, base, kind) ==
    LET plen == IF kind = "bare" THEN 0 ELSE 1 + ((base + i) % MaxPayload)
    IN  FrameOf(i,
                IF kind = "magic" THEN BadMagic ELSE UBNT,
                CASE kind = "zero"  -> 0
                  [] kind = "over"  -> plen + 1
                  [] kind = "under" -> plen - 1
                  [] kind = "bare"  -> 1
                  [] OTHER          -> plen,
                plen)

\* streams of k frames of which at most one (frame d) has a defect
FramesOfLen(k) ==
    { [i \in 1..k |-> FrameIn(i, base, IF i = d THEN kind ELSE "ok")] :
        base \in 1..MaxPayload, d \in 0..k, kind \in Defects }

FrameSeqs == UNION { FramesOfLen(k) : k \in 1..MaxPackets }

\* lengths a single frame is cut to, all inside the header
Cuts == {0, 3, 4, 39}

Scripts == UNION { [1..k -> Behaviours] : k \in 0..MaxReads }

Fills(script) == \A k \in 1..Len(script) : script[k] \in {"full", "eof"}

ErrFree(script) == \A k \in 1..Len(script) : script[k] # "fail"

----------------------------------------------------------------------------
(* Specification of ReadPacket calls on one reader *)

IdleData == /\ dpkt = EmptyPacket /\ dkey = <<>>
            /\ dres = [kind |-> "none"] /\ dpc = "idle"

IdlePad == /\ ubuf = <<>> /\ uorig = <<>>
           /\ ures = [kind |-> "none"] /\ upc = "idle"

InitRead ==
    /\ frames \in FrameSeqs
    /\ \/ stream = Concat(frames)
       \/ Len(frames) = 1 /\ \E n \in Cuts : stream = Take(Concat(frames), n)
    /\ pos = 0
    /\ calls = <<>>
    /\ IdleData
    /\ IdlePad

\* one ReadPacket(r) call
ReadPacketCall ==
    /\ Len(calls) < MaxPackets
    /\ \E script \in Scripts :
          LET res == ReadPacket(stream, pos, script)
          IN  /\ pos' = res.end
              /\ calls' = Append(calls,
                    [start |-> pos,
                     first |-> Read(stream, pos, Beh(script, 1), hlen),
                     fills |-> Fills(script),
                     errfree |-> ErrFree(script),
                     pkt |-> res.pkt, err |-> res.err, end |-> res.end])
    /\ UNCHANGED <<frames, stream, dataVars, padVars>>

NextRead == ReadPacketCall

SpecRead == InitRead /\ [][NextRead]_vars

----------------------------------------------------------------------------
(* pkcs7unpad *)

errInvalidPadding(msg) == [kind |-> "InvalidPadding", msg |-> msg]

errInvalidKey == [kind |-> "InvalidKey", msg |-> "invalid key"]

errFlagNotSupported(name) == [kind |-> "UnsupportedFlag", msg |-> name]

RECURSIVE PadLoop(_, _, _, _)
\* the loop over i = 0 .. n-1 comparing b[len(b)-n+i] with c (1-based here)
PadLoop(b, c, n, i) ==
    IF i >= n THEN TRUE
    ELSE IF b[Len(b) - n + i + 1] # c THEN FALSE
    ELSE PadLoop(b, c, n, i + 1)

\* mutant: a length byte of zero is not rejected
pkcs7unpad_zeroOK(b) ==
    IF Len(b) = 0 THEN [res |-> <<>>, err |-> errInvalidPadding("no data")]
    ELSE LET c == b[Len(b)]
             n == c
         IN  IF n > Len(b)
             THEN [res |-> <<>>, err |-> errInvalidPadding("data is not padded")]
             ELSE IF ~PadLoop(b, c, n, 0)
             THEN [res |-> <<>>, err |-> errInvalidPadding("structure invalid")]
             ELSE [res |-> <<SubSeq(b, 1, Len(b) - n)>>, err |-> NoErr]

\* res is <<>> for nil or <<slice>>
pkcs7unpad(b) ==
    IF Len(b) = 0 THEN [res |-> <<>>, err |-> errInvalidPadding("no data")]
    ELSE LET c == b[Len(b)]
             n == c
         IN  IF n = 0 \/ n > Len(b)
             THEN [res |-> <<>>, err |-> errInvalidPadding("data is not padded")]
             ELSE IF ~PadLoop(b, c, n, 0)
             THEN [res |-> <<>>, err |-> errInvalidPadding("structure invalid")]
             ELSE [res |-> <<SubSeq(b, 1, Len(b) - n)>>, err |-> NoErr]

----------------------------------------------------------------------------
(* Packet.Data, decrypt, deflate *)

BlockSize == 16

KeySize == 16

TrailerLen == 10

\* decrypt(key, iv, data); plain is what CryptBlocks leaves in the copy of
\* data (same length as data).  cipher is <<>> when the cipher was not run.
decrypt(key, iv, data, plain) ==
    IF Len(key) # KeySize
    THEN [res |-> <<>>, err |-> errInvalidKey, cipher |-> <<>>]
    ELSE IF Len(data) % BlockSize # 0
    THEN [res |-> <<>>, err |-> errInvalidPadding("data is not padded"), cipher |-> <<>>]
    ELSE LET u == pkcs7unpad(plain)
         IN  [res |-> u.res, err |-> u.err, cipher |-> <<plain>>]

errCorrupt == [kind |-> "Snappy", msg |-> "snappy: corrupt input"]

\* snappy.Decode(nil, in): an input of zero bytes never decodes, any other
\* input fares as dec says
snappyDecode(in, dec) ==
    IF Len(in) = 0 THEN [res |-> <<>>, err |-> errCorrupt] ELSE dec

\* deflate(data).  A slice bound below zero is a run-time panic.
deflate(data, dec) ==
    IF Len(data) - TrailerLen < 0
    THEN [kind |-> "panic", res |-> <<>>, err |-> NoErr]
    ELSE LET z == snappyDecode(SubSeq(data, 1, Len(data) - TrailerLen), dec)
         IN  [kind |-> "return", res |-> z.res, err |-> z.err]

\* Data(key) on packet p.  The record also keeps what the cipher produced,
\* what deflate was given (<<>> when not called) and how the decoder fared.
Data(p, key, plain, dec) ==
    LET d    == IF HasFlag(p.Flags, Encrypted)
                THEN decrypt(key, p.IV, p.Payload, plain)
                ELSE [res |-> <<p.Payload>>, err |-> NoErr, cipher |-> <<>>]
        base == [kind |-> "return", res |-> <<>>, err |-> NoErr,
                 cipher |-> d.cipher, deflateIn |-> <<>>, snappy |-> "skipped"]
    IN  IF d.err # NoErr THEN [base EXCEPT !.err = d.err]
        ELSE IF HasFlag(p.Flags, Compressed)
        THEN [base EXCEPT !.err = errFlagNotSupported("compressed")]
        ELSE IF HasFlag(p.Flags, SnappyCompressed)
        THEN LET z == deflate(d.res[1], dec)
             IN  IF z.kind = "panic"
                 THEN [base EXCEPT !.kind = "panic", !.deflateIn = d.res,
                                   !.snappy = "panic"]
                 ELSE IF z.err # NoErr
                 THEN [base EXCEPT !.deflateIn = d.res, !.snappy = "failed"]
                 ELSE [base EXCEPT !.res = z.res, !.deflateIn = d.res,
                                   !.snappy = "ok"]
        ELSE [base EXCEPT !.res = d.res]

----------------------------------------------------------------------------
(* Inputs of Data and outcomes of the external primitives *)

Fill(n, v) == [i \in 1..n |-> v]

DataLens == {1, 9, 10, 12, 16, 17, 32}

KeyLens == {0, 15, 16, 17, 32}

\* packets as ReadPacket returns them: 16-byte IV, non-empty payload
DataPackets ==
    { [PacketVersion |-> 1, PayloadVersion |-> 1, MAC |-> Fill(6, 17),
       Flags |-> f, IV |-> Fill(16, 33), Payload |-> Fill(n, v)] :
        f \in 0..7, n \in DataLens, v \in {0, 65} }

\* ends of the buffers CBC decryption may leave: valid padding of 1, 7 and 16
\* bytes, a zero length byte, a length byte beyond one block, a broken run
PlainTails == { Fill(1, 1), Fill(7, 7), Fill(16, 16), <<0>>, <<17>>, <<1, 2>> }

PlainTexts(n) ==
    { Fill(n - Len(t), 104) \o t : t \in { x \in PlainTails : Len(x) <= n } }

\* snappy.Decode either fails or yields some block
SnappyOutcomes ==
    { [res |-> <<>>, err |-> errCorrupt] } \cup
    { [res |-> <<b>>, err |-> NoErr] : b \in { <<>>, <<104, 105>> } }

----------------------------------------------------------------------------
(* Specification of one Data call *)

IdleRead == /\ frames = <<>> /\ stream = <<>> /\ pos = 0 /\ calls = <<>>

InitData ==
    /\ dpkt \in DataPackets
    /\ dkey \in { Fill(n, 7) : n \in KeyLens }
    /\ dres = [kind |-> "none"]
    /\ dpc = "ready"
    /\ IdleRead
    /\ IdlePad

\* p.Data(key)
DataCall ==
    /\ dpc = "ready"
    /\ \E plain \in PlainTexts(Len(dpkt.Payload)) :
       \E dec \in SnappyOutcomes :
          dres' = Data(dpkt, dkey, plain, dec)
    /\ dpc' = "done"
    /\ UNCHANGED <<dpkt, dkey, readVars, padVars>>

NextData == DataCall

SpecData == InitData /\ [][NextData]_vars

----------------------------------------------------------------------------
(* Specification of padding and unpadding one buffer *)

\* PKCS7 padding to the cipher's block size: 1 to 16 bytes, each the count
pkcs7pad(p) == LET n == BlockSize - (Len(p) % BlockSize) IN p \o Fill(n, n)

PadBytes == {0, 1, 2, 3}

Buffers == UNION { [1..n -> PadBytes] : n \in 0..MaxBufLen }

InitPad ==
    /\ ubuf \in Buffers
    /\ uorig = <<>>
    /\ ures = [kind |-> "none"]
    /\ upc = "input"
    /\ IdleRead
    /\ IdleData

\* the sender pads the plaintext; uorig remembers it as <<plaintext>>
PadCall ==
    /\ upc = "input"
    /\ ubuf' = pkcs7pad(ubuf)
    /\ uorig' = <<ubuf>>
    /\ upc' = "padded"
    /\ UNCHANGED <<ures, readVars, dataVars>>

\* pkcs7unpad(ubuf)
UnpadCall ==
    /\ upc \in {"input", "padded"}
    /\ ures' = pkcs7unpad(ubuf)
    /\ upc' = "done"
    /\ UNCHANGED <<ubuf, uorig, readVars, dataVars>>

NextPad == PadCall \/ UnpadCall

SpecPad == InitPad /\ [][NextPad]_vars

----------------------------------------------------------------------------
(* Properties of ReadPacket *)

CallIds == 1..Len(calls)

\* the bytes the reader still held when call i started
Rest(i) == SubSeq(stream, calls[i].start + 1, Len(stream))

StartsWithMagic(b) == Len(b) >= 4 /\ SubSeq(b, 1, 4) = UBNT

\* header field 7 of a buffer holding a whole header
Declared(b) == Uint(SubSeq(b, hlen - 3, hlen))

HeaderRead(i) == calls[i].first.n = hlen /\ calls[i].first.err = "nil"

\* C1 as stated: every buffer not starting with "UBNT", whatever its length,
\* read from a source that fills its reads, fails with InvalidMagicError
C1_AnyBufferInvalidMagic ==
    \A i \in CallIds :
        (calls[i].fills /\ ~StartsWithMagic(Rest(i)))
            => (calls[i].err = errInvalidMagic /\ calls[i].pkt = <<>>)

\* C1 amended: when the header read returns all 40 bytes without error and
\* they do not start with "UBNT", ReadPacket fails with InvalidMagicError and
\* returns no Packet
C1_FullHeaderInvalidMagic ==
    \A i \in CallIds :
        (HeaderRead(i) /\ ~StartsWithMagic(Rest(i)))
            => (calls[i].err = errInvalidMagic /\ calls[i].pkt = <<>>)

C1_Witness ==
    \E i \in CallIds :
        /\ HeaderRead(i) /\ ~StartsWithMagic(Rest(i))
        /\ calls[i].err = errInvalidMagic

\* C2: a source holding a header with valid magic whose declared length is 0
\* or exceeds the bytes after the header makes ReadPacket fail with
\* IncompletePacketError, never another error kind, never a Packet (stated
\* for sources that report no error but the end of the stream)
C2_BadLengthIncomplete ==
    \A i \in CallIds :
        (/\ calls[i].errfree
         /\ Len(Rest(i)) >= hlen
         /\ StartsWithMagic(Rest(i))
         /\ (Declared(Rest(i)) = 0 \/ Declared(Rest(i)) > Len(Rest(i)) - hlen))
            => (calls[i].err.kind = "IncompletePacket" /\ calls[i].pkt = <<>>)

\* C3: a returned Packet has len(Payload) = declared length > 0 and Payload is
\* the bytes right after the header; every failure returns no Packet
C3_PacketWellFormed ==
    \A i \in CallIds :
        /\ calls[i].pkt # <<>> =>
              LET b == Rest(i)
                  L == Declared(b)
              IN  /\ calls[i].err = NoErr
                  /\ Len(b) >= hlen + L
                  /\ L > 0
                  /\ Len(calls[i].pkt[1].Payload) = L
                  /\ calls[i].pkt[1].Payload = SubSeq(b, hlen + 1, hlen + L)
        /\ calls[i].err # NoErr => calls[i].pkt = <<>>
        /\ calls[i].err = NoErr => calls[i].pkt # <<>>

C3_Witness ==
    /\ \E i \in CallIds : calls[i].pkt # <<>> /\ Len(calls[i].pkt[1].Payload) >= 2
    /\ \E i \in CallIds : calls[i].err.kind = "IncompletePacket"

\* C4: whenever the header cannot be fully read (fewer than 40 bytes in the
\* source, or a read error) ReadPacket fails with
\* IncompletePacketError("header too short")
C4_ShortHeaderIncomplete ==
    \A i \in CallIds :
        (Len(Rest(i)) < hlen \/ calls[i].first.err = "closed")
            => calls[i].err = errIncompletePacket("header too short")

\* C5: on a stream holding a complete well-formed packet ReadPacket succeeds
\* however the source splits the bytes across reads
C5_ChunkingIndependent ==
    \A i \in CallIds :
        (/\ calls[i].errfree
         /\ Len(Rest(i)) >= hlen
         /\ StartsWithMagic(Rest(i))
         /\ Declared(Rest(i)) > 0
         /\ Len(Rest(i)) >= hlen + Declared(Rest(i)))
            => (calls[i].pkt # <<>> /\ calls[i].err = NoErr)

WellFormed(fr) == fr.magic = UBNT /\ fr.declared = Len(fr.payload) /\ fr.declared > 0

PacketOf(fr) == [PacketVersion |-> fr.ver, PayloadVersion |-> fr.pver,
                 MAC |-> fr.mac, Flags |-> fr.flags, IV |-> fr.iv,
                 Payload |-> fr.payload]

\* C10: a successful call consumes exactly 40 + payloadLength bytes; on a
\* stream of k well-formed packets read from a source that fills each read,
\* successive calls return the packets in order, each with its own fields
C10_SuccessiveInOrder ==
    /\ \A i \in CallIds :
          calls[i].pkt # <<>> =>
              calls[i].end - calls[i].start = hlen + Len(calls[i].pkt[1].Payload)
    /\ (/\ stream = Concat(frames)
        /\ \A j \in 1..Len(frames) : WellFormed(frames[j])
        /\ \A i \in CallIds : calls[i].fills)
          => \A i \in CallIds :
                /\ i <= Len(frames) => calls[i].pkt = <<PacketOf(frames[i])>>
                /\ i <= Len(frames) =>
                      calls[i].end = Len(Concat(SubSeq(frames, 1, i)))

C10_Witness ==
    /\ stream = Concat(frames)
    /\ Len(frames) >= 2
    /\ \A j \in 1..Len(frames) : WellFormed(frames[j])
    /\ Len(calls) >= 2
    /\ \A i \in CallIds : calls[i].fills
    /\ calls[2].pkt = <<PacketOf(frames[2])>>
    /\ calls[2].pkt # calls[1].pkt

----------------------------------------------------------------------------
(* Properties of pkcs7unpad *)

PadFail(msg) == [res |-> <<>>, err |-> errInvalidPadding(msg)]

\* C8: pkcs7unpad(b), n the last byte of b: "no data" for empty b, else
\* "data is not padded" if n = 0 or n > len(b), else "structure invalid" if
\* one of the last n bytes differs from n, else b without its last n bytes;
\* and unpadding a PKCS7-padded plaintext gives the plaintext back
C8_UnpadCases ==
    upc = "done" =>
        /\ Len(ubuf) = 0 => ures = PadFail("no data")
        /\ Len(ubuf) > 0 =>
              LET n == ubuf[Len(ubuf)]
              IN  IF n = 0 \/ n > Len(ubuf)
                  THEN ures = PadFail("data is not padded")
                  ELSE IF \E j \in (Len(ubuf) - n + 1)..Len(ubuf) : ubuf[j] # n
                  THEN ures = PadFail("structure invalid")
                  ELSE ures = [res |-> <<SubSeq(ubuf, 1, Len(ubuf) - n)>>,
                               err |-> NoErr]
        /\ uorig # <<>> => ures = [res |-> uorig, err |-> NoErr]

C8_Witness ==
    /\ upc = "done"
    /\ uorig # <<>>
    /\ Len(uorig[1]) > 0
    /\ ures = [res |-> uorig, err |-> NoErr]

----------------------------------------------------------------------------
(* Properties of Packet.Data *)

\* the buffer ends in PKCS7 padding
ValidPadding(b) ==
    /\ Len(b) > 0
    /\ b[Len(b)] >= 1
    /\ b[Len(b)] <= Len(b)
    /\ \A j \in (Len(b) - b[Len(b)] + 1)..Len(b) : b[j] = b[Len(b)]

\* decryption was asked for and could not succeed
DecryptFails ==
    /\ dpkt.Flags % 2 = 1
    /\ \/ Len(dkey) # KeySize
       \/ Len(dpkt.Payload) % BlockSize # 0
       \/ dres.cipher # <<>> /\ ~ValidPadding(dres.cipher[1])

\* C6: when SnappyCompressed is set and the decompressor fails, Data returns
\* a non-nil error
C6_SnappyFailureSurfaced ==
    (dpc = "done" /\ dres.snappy = "failed") => dres.err # NoErr

\* C7 as stated: with the Compressed bit set Data returns
\* UnsupportedFlagError("compressed") whatever the payload, key and other flags
C7_CompressedAlwaysUnsupported ==
    (dpc = "done" /\ (dpkt.Flags \div Compressed) % 2 = 1)
        => (dres.kind = "return" /\ dres.err = errFlagNotSupported("compressed"))

\* C7 amended: with the Compressed bit set Data returns
\* UnsupportedFlagError("compressed") whatever the payload and the
\* SnappyCompressed bit, unless Encrypted is also set and decryption fails:
\* then it returns the decryption's InvalidKeyError or InvalidPaddingError
C7_CompressedUnlessDecryptFails ==
    (dpc = "done" /\ (dpkt.Flags \div Compressed) % 2 = 1)
        => /\ dres.kind = "return"
           /\ dres.res = <<>>
           /\ dres.snappy = "skipped"
           /\ IF DecryptFails
              THEN dres.err.kind \in {"InvalidKey", "InvalidPadding"}
              ELSE dres.err = errFlagNotSupported("compressed")

C7_Witness ==
    /\ dpc = "done"
    /\ dpkt.Flags = Encrypted + Compressed + SnappyCompressed
    /\ ~DecryptFails
    /\ dres.cipher # <<>>
    /\ dres.err = errFlagNotSupported("compressed")

\* C9: with SnappyCompressed set and fewer than 10 bytes left after
\* decryption, Data returns an error normally instead of crashing
C9_ShortSnappyNoCrash ==
    (dpc = "done" /\ dres.deflateIn # <<>> /\ Len(dres.deflateIn[1]) < TrailerLen)
        => (dres.kind = "return" /\ dres.err # NoErr)

====
